---- MODULE Spec2Model ----
(***************************************************************************)
(* Model of the proposal/vote canister in                                  *)
(* src/src/final_project_backend/src/lib.rs.                               *)
(*                                                                         *)
(* PROPOSAL_MAP is the one piece of program state.  Every canister method  *)
(* is an operator from (map, arguments, caller) to (map, return value),    *)
(* translated branch by branch from its Rust body, and one action of the   *)
(* state machine calls it.  The host runs the calls one at a time, so an   *)
(* action is a whole call.                                                 *)
(***************************************************************************)
EXTENDS Integers, Sequences, FiniteSets, TLC

VARIABLES
    store,    \* PROPOSAL_MAP: a function from the stored keys to Proposal records
    last,     \* the call that was executed last, with what it returned
    calls,    \* number of calls executed so far
    created,  \* history: the keys create_proposal has been called on
    accepted, \* history: the keys a create_proposal call has completed on
    hist      \* history: per key, the successful edit/end/vote calls since the
              \* record now stored at that key was inserted

vars == <<store, last, calls, created, accepted, hist>>

----------------------------------------------------------------------------
(* Bounds of the exploration *)

\* calls explored from the empty map
MaxCalls == 4

\* u64 keys; two of them, so that a call on one key can be told from a call on another
Keys == {1, 2}

\* Principals handed in by ic_cdk::caller(): a user (a self-authenticating
\* principal, 29 bytes) and a canister (a 10-byte principal)
Callers == {"alice", "dao"}

\* Description texts.  "long" stands for a text of LongLen bytes, of which only
\* the length is modelled: a fresh record holding it is within MAX_VALUE_SIZE
\* when owned by the 10-byte principal (4990 bytes) and beyond it when owned
\* by the 29-byte one (5009 bytes).
Descriptions == {"Adopt policy X", "long"}

LongLen == 4910

----------------------------------------------------------------------------
(* Types and constants of lib.rs *)

MAX_VALUE_SIZE == 5000

Choices == {"Approve", "Reject", "Pass"}

VoteErrors ==
    {"AlreadyVoted", "ProposalIsNotActive", "NoSuchProposal", "AccessRejected", "UpdateError"}

\* String::len in bytes
DescLen(d) == IF d = "long" THEN LongLen ELSE 14

\* Principal::as_slice().len()
PrincipalLen(c) == IF c = "dao" THEN 10 ELSE 29

\* Option<T>
None == <<>>
Some(x) == <<x>>

\* CreateProposal { description, is_active }
CreateProposals == [description : Descriptions, is_active : BOOLEAN]

----------------------------------------------------------------------------
(* Storable for Proposal: the length of Encode!(self) *)

\* bytes of the unsigned LEB128 encoding of n
RECURSIVE Leb128Len(_)
Leb128Len(n) == IF n < 128 THEN 1 ELSE 1 + Leb128Len(n \div 128)

\* "DIDL", the type table (a record of 7 fields whose field ids take
\* 5,5,4,5,5,5,5 bytes, and vec principal) and the argument list
CandidHeaderLen == 52

\* a principal value: the flag byte, the length, the bytes
PrincipalBytes(c) == 1 + Leb128Len(PrincipalLen(c)) + PrincipalLen(c)

RECURSIVE VotedBytes(_)
VotedBytes(voted) ==
    IF voted = <<>> THEN 0 ELSE PrincipalBytes(Head(voted)) + VotedBytes(Tail(voted))

\* Proposal::to_bytes(): the length of the Candid encoding of the record
to_bytes_len(p) ==
    CandidHeaderLen
    + Leb128Len(DescLen(p.description)) + DescLen(p.description)   \* description: text
    + 4 + 4 + 4                                                    \* approve, reject, pass: nat32
    + 1                                                            \* is_active: bool
    + Leb128Len(Len(p.voted)) + VotedBytes(p.voted)                \* voted: vec principal
    + PrincipalBytes(p.owner)                                      \* owner: principal

----------------------------------------------------------------------------
(* The canister methods *)

\* what a call leaves behind: the map, the value returned, and whether the
\* call trapped (a trap rolls the call's changes back and returns nothing)
Reply(map, ret) == [map |-> map, ret |-> ret, trap |-> FALSE]
Trap(map) == [map |-> map, ret |-> None, trap |-> TRUE]

\* Vec::contains
Contains(voted, c) == \E i \in 1..Len(voted) : voted[i] = c

\* StableBTreeMap::get
MapGet(map, key) == IF key \in DOMAIN map THEN Some(map[key]) ELSE None

\* StableBTreeMap::len
MapLen(map) == Cardinality(DOMAIN map)

\* mutant of MapInsert: the map is built anew around the inserted entry
MapInsert_alone(map, key, value) ==
    IF to_bytes_len(value) > MAX_VALUE_SIZE
    THEN Trap(map)
    ELSE Reply((key :> value), MapGet(map, key))

\* mutant of MapInsert: an occupied key keeps its entry (entry().or_insert)
MapInsert_keep(map, key, value) ==
    IF to_bytes_len(value) > MAX_VALUE_SIZE
    THEN Trap(map)
    ELSE IF key \in DOMAIN map
         THEN Reply(map, MapGet(map, key))
         ELSE Reply((key :> value) @@ map, None)

\* StableBTreeMap::insert of a BoundedStorable value: a value whose bytes
\* exceed MAX_SIZE is refused, otherwise the entry is written and the
\* previous value returned
MapInsert(map, key, value) ==
    IF to_bytes_len(value) > MAX_VALUE_SIZE
    THEN Trap(map)
    ELSE Reply((key :> value) @@ map, MapGet(map, key))

\* mutant of get_proposal: the entry is taken out of the map (remove for get)
get_proposal_take(map, key) ==
    Reply([k \in DOMAIN map \ {key} |-> map[k]], MapGet(map, key))

get_proposal(map, key) == Reply(map, MapGet(map, key))

get_proposal_count(map) == Reply(map, MapLen(map))

\* mutant of create_proposal: an occupied key is overwritten by its owner only
create_proposal_owned(map, key, proposal, caller) ==
    LET value == [description |-> proposal.description,
                  approve     |-> 0,
                  reject      |-> 0,
                  pass        |-> 0,
                  is_active   |-> proposal.is_active,
                  voted       |-> <<>>,
                  owner       |-> caller]
    IN  IF key \in DOMAIN map /\ map[key].owner # caller
        THEN Reply(map, None)
        ELSE MapInsert(map, key, value)

\* mutant of create_proposal: the owner is the anonymous principal, not the caller
create_proposal_anonymous(map, key, proposal, caller) ==
    LET value == [description |-> proposal.description,
                  approve     |-> 0,
                  reject      |-> 0,
                  pass        |-> 0,
                  is_active   |-> proposal.is_active,
                  voted       |-> <<>>,
                  owner       |-> "anonymous"]
    IN  MapInsert(map, key, value)

create_proposal(map, key, proposal, caller) ==
    LET value == [description |-> proposal.description,
                  approve     |-> 0,
                  reject      |-> 0,
                  pass        |-> 0,
                  is_active   |-> proposal.is_active,
                  voted       |-> <<>>,
                  owner       |-> caller]
    IN  MapInsert(map, key, value)

\* mutant of edit_proposal: no owner check
edit_proposal_open(map, key, proposal, caller) ==
    IF key \in DOMAIN map
    THEN Reply([map EXCEPT ![key].description = proposal.description,
                           ![key].is_active = proposal.is_active], "Ok")
    ELSE Reply(map, "NoSuchProposal")

\* mutant of edit_proposal: an absent key gets a record (an upsert)
edit_proposal_upsert(map, key, proposal, caller) ==
    IF key \in DOMAIN map
    THEN IF map[key].owner = caller
         THEN Reply([map EXCEPT ![key].description = proposal.description,
                                ![key].is_active = proposal.is_active], "Ok")
         ELSE Reply(map, "AccessRejected")
    ELSE Reply((key :> [description |-> proposal.description,
                        approve     |-> 0,
                        reject      |-> 0,
                        pass        |-> 0,
                        is_active   |-> proposal.is_active,
                        voted       |-> <<>>,
                        owner       |-> caller]) @@ map, "Ok")

\* mutant of edit_proposal: the record is built anew, as create_proposal builds it
edit_proposal_rebuild(map, key, proposal, caller) ==
    IF key \in DOMAIN map
    THEN IF map[key].owner = caller
         THEN Reply([map EXCEPT ![key] = [description |-> proposal.description,
                                          approve     |-> 0,
                                          reject      |-> 0,
                                          pass        |-> 0,
                                          is_active   |-> proposal.is_active,
                                          voted       |-> <<>>,
                                          owner       |-> caller]], "Ok")
         ELSE Reply(map, "AccessRejected")
    ELSE Reply(map, "NoSuchProposal")

edit_proposal(map, key, proposal, caller) ==
    IF key \in DOMAIN map
    THEN IF map[key].owner = caller
         THEN Reply([map EXCEPT ![key].description = proposal.description,
                                ![key].is_active = proposal.is_active], "Ok")
         ELSE Reply(map, "AccessRejected")
    ELSE Reply(map, "NoSuchProposal")

\* mutant of end_proposal: the owner's call removes the record
end_proposal_remove(map, key, caller) ==
    IF key \in DOMAIN map
    THEN IF map[key].owner = caller
         THEN Reply([k \in DOMAIN map \ {key} |-> map[k]], "Ok")
         ELSE Reply(map, "AccessRejected")
    ELSE Reply(map, "NoSuchProposal")

\* mutant of end_proposal: no owner check
end_proposal_open(map, key, caller) ==
    IF key \in DOMAIN map
    THEN Reply([map EXCEPT ![key].is_active = FALSE], "Ok")
    ELSE Reply(map, "NoSuchProposal")

end_proposal(map, key, caller) ==
    IF key \in DOMAIN map
    THEN IF map[key].owner = caller
         THEN Reply([map EXCEPT ![key].is_active = FALSE], "Ok")
         ELSE Reply(map, "AccessRejected")
    ELSE Reply(map, "NoSuchProposal")

\* mutant of vote: a closed proposal takes no vote
vote_active_only(map, key, choice, caller) ==
    IF key \in DOMAIN map
    THEN IF ~map[key].is_active
         THEN Reply(map, "ProposalIsNotActive")
         ELSE IF Contains(map[key].voted, caller)
              THEN Reply(map, "AlreadyVoted")
              ELSE LET counted ==
                           CASE choice = "Approve" -> [map EXCEPT ![key].approve = @ + 1]
                             [] choice = "Reject" -> [map EXCEPT ![key].reject = @ + 1]
                             [] choice = "Pass" -> [map EXCEPT ![key].pass = @ + 1]
                   IN  Reply([counted EXCEPT ![key].voted = Append(@, caller)], "Ok")
    ELSE Reply(map, "NoSuchProposal")

\* mutant of vote: the counter is incremented before voted is searched
vote_recount(map, key, choice, caller) ==
    IF key \in DOMAIN map
    THEN LET counted ==
                 CASE choice = "Approve" -> [map EXCEPT ![key].approve = @ + 1]
                   [] choice = "Reject" -> [map EXCEPT ![key].reject = @ + 1]
                   [] choice = "Pass" -> [map EXCEPT ![key].pass = @ + 1]
         IN  IF Contains(map[key].voted, caller)
             THEN Reply(counted, "AlreadyVoted")
             ELSE Reply([counted EXCEPT ![key].voted = Append(@, caller)], "Ok")
    ELSE Reply(map, "NoSuchProposal")

\* mutant of vote: voted is not searched
vote_unchecked(map, key, choice, caller) ==
    IF key \in DOMAIN map
    THEN LET counted ==
                 CASE choice = "Approve" -> [map EXCEPT ![key].approve = @ + 1]
                   [] choice = "Reject" -> [map EXCEPT ![key].reject = @ + 1]
                   [] choice = "Pass" -> [map EXCEPT ![key].pass = @ + 1]
         IN  Reply([counted EXCEPT ![key].voted = Append(@, caller)], "Ok")
    ELSE Reply(map, "NoSuchProposal")

\* mutant of vote: Reject counts as an approval
vote_miscount(map, key, choice, caller) ==
    IF key \in DOMAIN map
    THEN IF Contains(map[key].voted, caller)
         THEN Reply(map, "AlreadyVoted")
         ELSE LET counted ==
                      CASE choice = "Approve" -> [map EXCEPT ![key].approve = @ + 1]
                        [] choice = "Reject" -> [map EXCEPT ![key].approve = @ + 1]
                        [] choice = "Pass" -> [map EXCEPT ![key].pass = @ + 1]
              IN  Reply([counted EXCEPT ![key].voted = Append(@, caller)], "Ok")
    ELSE Reply(map, "NoSuchProposal")

\* The counters are u32; a counter never exceeds Len(voted), which stays far
\* below 2^32 in every explored state, so += 1 is the plain sum.
vote(map, key, choice, caller) ==
    IF key \in DOMAIN map
    THEN IF Contains(map[key].voted, caller)
         THEN Reply(map, "AlreadyVoted")
         ELSE LET counted ==
                      CASE choice = "Approve" ->
                               [map EXCEPT ![key].approve = @ + 1]
                        [] choice = "Reject" ->
                               [map EXCEPT ![key].reject = @ + 1]
                        [] choice = "Pass" ->
                               [map EXCEPT ![key].pass = @ + 1]
              IN  Reply([counted EXCEPT ![key].voted = Append(@, caller)], "Ok")
    ELSE Reply(map, "NoSuchProposal")

----------------------------------------------------------------------------
(* The state machine *)

NoArg == "-"

Init ==
    /\ store = <<>>
    /\ last = [op |-> "init", caller |-> NoArg, key |-> 0, arg |-> NoArg,
               trap |-> FALSE, ret |-> None]
    /\ calls = 0
    /\ created = {}
    /\ accepted = {}
    /\ hist = [k \in Keys |-> <<>>]

\* one executed call: its reply r becomes the state
Executed(op, caller, key, arg, r) ==
    /\ calls < MaxCalls
    /\ calls' = calls + 1
    /\ store' = r.map
    /\ last' = [op |-> op, caller |-> caller, key |-> key, arg |-> arg,
                trap |-> r.trap, ret |-> r.ret]

\* the queries do not read ic_cdk::caller()
CallGetProposal(k) ==
    /\ Executed("get_proposal", NoArg, k, NoArg, get_proposal(store, k))
    /\ UNCHANGED <<created, accepted, hist>>

CallGetProposalCount ==
    /\ Executed("get_proposal_count", NoArg, 0, NoArg, get_proposal_count(store))
    /\ UNCHANGED <<created, accepted, hist>>

CallCreateProposal(c, k, p) ==
    LET r == create_proposal(store, k, p, c)
    IN  /\ Executed("create_proposal", c, k, p, r)
        /\ created' = created \cup {k}
        /\ accepted' = IF r.trap THEN accepted ELSE accepted \cup {k}
        /\ hist' = IF r.trap THEN hist ELSE [hist EXCEPT ![k] = <<>>]

\* the history keeps the calls that returned Ok
Recorded(op, c, k, arg, r) ==
    IF r.ret = "Ok"
    THEN [hist EXCEPT ![k] = Append(@, [op |-> op, caller |-> c, arg |-> arg])]
    ELSE hist

CallEditProposal(c, k, p) ==
    LET r == edit_proposal(store, k, p, c)
    IN  /\ Executed("edit_proposal", c, k, p, r)
        /\ hist' = Recorded("edit_proposal", c, k, p, r)
        /\ UNCHANGED <<created, accepted>>

CallEndProposal(c, k) ==
    LET r == end_proposal(store, k, c)
    IN  /\ Executed("end_proposal", c, k, NoArg, r)
        /\ hist' = Recorded("end_proposal", c, k, NoArg, r)
        /\ UNCHANGED <<created, accepted>>

CallVote(c, k, ch) ==
    LET r == vote(store, k, ch, c)
    IN  /\ Executed("vote", c, k, ch, r)
        /\ hist' = Recorded("vote", c, k, ch, r)
        /\ UNCHANGED <<created, accepted>>

Next ==
    \/ \E k \in Keys : CallGetProposal(k)
    \/ CallGetProposalCount
    \/ \E c \in Callers, k \in Keys, p \in CreateProposals : CallCreateProposal(c, k, p)
    \/ \E c \in Callers, k \in Keys, p \in CreateProposals : CallEditProposal(c, k, p)
    \/ \E c \in Callers, k \in Keys : CallEndProposal(c, k)
    \/ \E c \in Callers, k \in Keys, ch \in Choices : CallVote(c, k, ch)

Spec == Init /\ [][Next]_vars

----------------------------------------------------------------------------
(* Properties *)

\* the step is a call of op on key k
IsCall(op, k) == calls' = calls + 1 /\ last'.op = op /\ last'.key = k

\* C1. Vote exclusivity: when caller c is already in voted of the proposal at
\* k, vote(k, choice) by c returns AlreadyVoted for each of the three choices
\* and leaves approve, reject, pass and voted of that proposal as they were.
VoteExclusivity ==
    [][\A k \in DOMAIN store, c \in Callers :
          (IsCall("vote", k) /\ last'.caller = c /\ Contains(store[k].voted, c))
          => /\ last'.ret = "AlreadyVoted"
             /\ k \in DOMAIN store'
             /\ store'[k].approve = store[k].approve
             /\ store'[k].reject = store[k].reject
             /\ store'[k].pass = store[k].pass
             /\ store'[k].voted = store[k].voted]_vars

\* a second vote, for another choice than the one counted, was turned down
VoteExclusivityWitness ==
    /\ last.op = "vote"
    /\ last.ret = "AlreadyVoted"
    /\ last.arg = "Reject"
    /\ store[last.key].approve = 1
    /\ store[last.key].reject = 0
    /\ store[last.key].voted = <<last.caller>>

\* C2. Ownership enforcement: on an existing key, edit_proposal and
\* end_proposal by a caller other than the stored owner return AccessRejected
\* and leave the whole record at that key as it was.
OwnershipEnforced ==
    [][\A k \in DOMAIN store :
          (/\ IsCall("edit_proposal", k) \/ IsCall("end_proposal", k)
           /\ last'.caller # store[k].owner)
          => /\ last'.ret = "AccessRejected"
             /\ k \in DOMAIN store'
             /\ store'[k] = store[k]]_vars

\* a caller who is not the owner tried to close an active proposal
OwnershipEnforcedWitness ==
    /\ last.op = "end_proposal"
    /\ last.ret = "AccessRejected"
    /\ store[last.key].owner # last.caller
    /\ store[last.key].is_active

\* C3 as claimed. The owner stored at a key is the same in every later
\* state, whatever calls follow, create_proposal included.
OwnerNeverChanges ==
    [][\A k \in DOMAIN store :
          k \in DOMAIN store' /\ store'[k].owner = store[k].owner]_vars

\* C3 as amended. The owner stored at a key is left alone by every
\* edit_proposal, end_proposal and vote, by the queries and by calls on other
\* keys; only a create_proposal on that key replaces it, and the new owner
\* is the creating caller.
OwnerChangesOnlyByCreate ==
    [][\A k \in DOMAIN store :
          /\ k \in DOMAIN store'
          /\ store'[k].owner # store[k].owner => IsCall("create_proposal", k)
          /\ (IsCall("create_proposal", k) /\ ~last'.trap)
             => store'[k].owner = last'.caller]_vars

\* a create_proposal by another caller took over a key that had an owner
OwnerChangesOnlyByCreateWitness ==
    /\ last.op = "create_proposal"
    /\ ~last.trap
    /\ last.ret # None
    /\ last.ret[1].owner # last.caller
    /\ store[last.key].owner = last.caller

Fresh(p, c) ==
    [description |-> p.description, approve |-> 0, reject |-> 0, pass |-> 0,
     is_active |-> p.is_active, voted |-> <<>>, owner |-> c]

Votes(k) == SelectSeq(hist[k], LAMBDA e : e.op = "vote")

\* how many of them were for choice ch
Tally(k, ch) == Len(SelectSeq(Votes(k), LAMBDA e : e.arg = ch))

\* the identifiers in a voted list
Voters(voted) == {voted[i] : i \in 1..Len(voted)}

\* C6. Counter conservation: a vote by a caller who is not yet in voted of an
\* existing proposal succeeds, and after N distinct callers have voted on a
\* proposal created with counters 0, a of them Approve, r Reject and p Pass,
\* in any order and with edit_proposal and end_proposal calls in between, the
\* record has approve = a, reject = r, pass = p and len(voted) = N.
CounterConservation ==
    /\ \A k \in DOMAIN store :
          /\ store[k].approve = Tally(k, "Approve")
          /\ store[k].reject = Tally(k, "Reject")
          /\ store[k].pass = Tally(k, "Pass")
          /\ Len(store[k].voted) = Len(Votes(k))
          /\ Cardinality({e.caller : e \in Voters(Votes(k))}) = Len(Votes(k))
    /\ (last.op = "vote" /\ last.ret # "Ok")
       => (last.key \notin DOMAIN store \/ Contains(store[last.key].voted, last.caller))

\* two callers voted, one Approve and one Pass, and the owner closed the
\* proposal between the two votes
CounterConservationWitness ==
    \E k \in DOMAIN store :
        /\ Len(hist[k]) = 3
        /\ hist[k][1].op = "vote"
        /\ hist[k][2].op = "end_proposal"
        /\ hist[k][3].op = "vote"
        /\ store[k].approve = 1
        /\ store[k].reject = 0
        /\ store[k].pass = 1
        /\ Len(store[k].voted) = 2

\* C7. No stored proposal lists a caller identifier twice in voted.
NoDuplicateVoters ==
    \A k \in DOMAIN store :
        \A i, j \in 1..Len(store[k].voted) :
            i # j => store[k].voted[i] # store[k].voted[j]

\* both callers are in voted and one of them has just tried to vote again
NoDuplicateVotersWitness ==
    /\ last.op = "vote"
    /\ last.ret = "AlreadyVoted"
    /\ Len(store[last.key].voted) = 2

\* C8. Absent keys: a key create_proposal was never called on holds no
\* record; get_proposal on it returns None, and edit_proposal, end_proposal
\* and vote on it return NoSuchProposal and create no record.
AbsentKeys ==
    /\ \A k \in Keys \ created : k \notin DOMAIN store
    /\ (last.op = "get_proposal" /\ last.key \notin created) => last.ret = None
    /\ (last.op \in {"edit_proposal", "end_proposal", "vote"} /\ last.key \notin created)
       => last.ret = "NoSuchProposal"

\* a vote on a key that was never created, while the other key holds a record
AbsentKeysWitness ==
    /\ last.op = "vote"
    /\ last.key \notin created
    /\ created # {}
    /\ DOMAIN store # {}

\* C9. Size bound: the serialized size of every stored proposal is at most
\* MAX_VALUE_SIZE bytes.
SizeBound ==
    \A k \in DOMAIN store : to_bytes_len(store[k]) <= MAX_VALUE_SIZE

\* C10 as claimed. No call ever decreases approve, reject or pass of a key or
\* removes an identifier from its voted.
CountersNeverDecrease ==
    [][\A k \in DOMAIN store :
          /\ k \in DOMAIN store'
          /\ store'[k].approve >= store[k].approve
          /\ store'[k].reject >= store[k].reject
          /\ store'[k].pass >= store[k].pass
          /\ Voters(store[k].voted) \subseteq Voters(store'[k].voted)]_vars

\* C10 as amended. edit_proposal, end_proposal, vote, the queries and calls
\* on other keys never decrease approve, reject or pass of a key or remove an
\* identifier from its voted; a create_proposal on the key that completes
\* replaces the record, with the three counters 0 and voted empty.
CountersDecreaseOnlyByCreate ==
    [][\A k \in DOMAIN store :
          /\ k \in DOMAIN store'
          /\ IF IsCall("create_proposal", k) /\ ~last'.trap
             THEN /\ store'[k].approve = 0
                  /\ store'[k].reject = 0
                  /\ store'[k].pass = 0
                  /\ store'[k].voted = <<>>
             ELSE /\ store'[k].approve >= store[k].approve
                  /\ store'[k].reject >= store[k].reject
                  /\ store'[k].pass >= store[k].pass
                  /\ Voters(store[k].voted) \subseteq Voters(store'[k].voted)]_vars

\* the owner edited a proposal both callers had voted on, and the votes stayed
CountersKeptWitness ==
    /\ last.op = "edit_proposal"
    /\ last.ret = "Ok"
    /\ Len(store[last.key].voted) = 2
    /\ store[last.key].approve + store[last.key].reject + store[last.key].pass = 2

\* C11. No partial application: a call of edit_proposal, end_proposal or vote
\* that returns an error leaves the whole store as it was before the call:
\* the same keys, the same record at every key.
NoPartialApplication ==
    [][(/\ calls' = calls + 1
        /\ last'.op \in {"edit_proposal", "end_proposal", "vote"}
        /\ last'.ret \in VoteErrors)
       => store' = store]_vars

\* a caller who is not the owner had an edit refused while both keys held a
\* record, one of them with a vote
NoPartialApplicationWitness ==
    /\ last.op = "edit_proposal"
    /\ last.ret = "AccessRejected"
    /\ DOMAIN store = Keys
    /\ \E k \in Keys : store[k].voted # <<>>

ReadsArePure ==
    [][/\ (calls' = calls + 1 /\ last'.op \in {"get_proposal", "get_proposal_count"})
          => store' = store
       /\ (last.op = "get_proposal" /\ IsCall("get_proposal", last.key))
          => last'.ret = last.ret
       /\ (last.op = "get_proposal" /\ calls' = calls + 1
           /\ last'.op = "get_proposal_count")
          => get_proposal(store', last.key).ret = last.ret]_vars

\* get_proposal returned a stored record that two votes had been counted on,
\* and the record is still stored as returned
ReadsArePureWitness ==
    /\ last.op = "get_proposal"
    /\ last.ret # None
    /\ last.ret = Some(store[last.key])
    /\ Len(last.ret[1].voted) = 2

\* the counter of record p that choice ch is counted in
Counter(p, ch) ==
    CASE ch = "Approve" -> p.approve
      [] ch = "Reject" -> p.reject
      [] ch = "Pass" -> p.pass

\* C15. A vote(k, choice) by caller c that succeeds adds exactly 1 to the
\* counter of that choice, leaves the two other counters as they were and
\* adds c to voted once; it succeeds only when c was not in voted before.
VoteCountsOnce ==
    [][\A k \in DOMAIN store :
          (IsCall("vote", k) /\ last'.ret = "Ok")
          => /\ ~Contains(store[k].voted, last'.caller)
             /\ k \in DOMAIN store'
             /\ \A ch \in Choices :
                   Counter(store'[k], ch)
                       = Counter(store[k], ch) + (IF ch = last'.arg THEN 1 ELSE 0)
             /\ store'[k].voted = Append(store[k].voted, last'.caller)]_vars

\* the second caller's Reject was counted next to the first caller's Pass
VoteCountsOnceWitness ==
    /\ last.op = "vote"
    /\ last.ret = "Ok"
    /\ last.arg = "Reject"
    /\ store[last.key].reject = 1
    /\ store[last.key].pass = 1
    /\ store[last.key].approve = 0
    /\ Len(store[last.key].voted) = 2
    /\ store[last.key].voted[2] = last.caller

\* C16. Votes on closed proposals: vote does not depend on is_active.  On a
\* stored proposal with is_active = false a caller who is not in voted gets
\* Ok, the counter of the choice grows by 1 and the caller joins voted; every
\* vote returns the same, and changes the same, as it would with is_active
\* flipped; and no call returns ProposalIsNotActive.
VotesIgnoreIsActive ==
    [][/\ \A k \in DOMAIN store :
             (/\ IsCall("vote", k)
              /\ ~store[k].is_active
              /\ ~Contains(store[k].voted, last'.caller))
             => /\ last'.ret = "Ok"
                /\ k \in DOMAIN store'
                /\ ~store'[k].is_active
                /\ Counter(store'[k], last'.arg) = Counter(store[k], last'.arg) + 1
                /\ store'[k].voted = Append(store[k].voted, last'.caller)
       /\ \A k \in DOMAIN store :
             IsCall("vote", k)
             => LET flipped == [store EXCEPT ![k].is_active = ~@]
                    r == vote(flipped, k, last'.arg, last'.caller)
                IN  /\ r.ret = last'.ret
                    /\ r.map = [store' EXCEPT ![k].is_active = ~@]
       /\ (/\ calls' = calls + 1
           /\ last'.op \in {"edit_proposal", "end_proposal", "vote"})
          => last'.ret # "ProposalIsNotActive"]_vars

\* a vote was counted on a proposal its owner had ended
VotesIgnoreIsActiveWitness ==
    /\ last.op = "vote"
    /\ last.ret = "Ok"
    /\ ~store[last.key].is_active
    /\ Len(hist[last.key]) >= 2
    /\ hist[last.key][Len(hist[last.key]) - 1].op = "end_proposal"

\* C17. Field-level frame: an edit_proposal(k, d, a) that succeeds sets
\* description = d and is_active = a and leaves approve, reject, pass, voted
\* and owner of k as they were; an end_proposal(k) that succeeds changes
\* is_active only; a vote(k, choice) that succeeds leaves description,
\* is_active and owner of k as they were.
FieldLevelFrame ==
    [][\A k \in DOMAIN store :
          /\ (IsCall("edit_proposal", k) /\ last'.ret = "Ok")
             => /\ k \in DOMAIN store'
                /\ store'[k] = [store[k] EXCEPT !.description = last'.arg.description,
                                                !.is_active = last'.arg.is_active]
          /\ (IsCall("end_proposal", k) /\ last'.ret = "Ok")
             => /\ k \in DOMAIN store'
                /\ store'[k] = [store[k] EXCEPT !.is_active = FALSE]
          /\ (IsCall("vote", k) /\ last'.ret = "Ok")
             => /\ k \in DOMAIN store'
                /\ store'[k].description = store[k].description
                /\ store'[k].is_active = store[k].is_active
                /\ store'[k].owner = store[k].owner]_vars

\* the owner gave a proposal with a counted vote the long description and
\* closed it in one edit_proposal
FieldLevelFrameWitness ==
    /\ last.op = "edit_proposal"
    /\ last.ret = "Ok"
    /\ last.arg.description = "long"
    /\ store[last.key].description = "long"
    /\ ~store[last.key].is_active
    /\ store[last.key].voted # <<>>
    /\ store[last.key].owner = last.caller

\* C18. Every stored proposal has approve + reject + pass = len(voted), also
\* after create_proposal overwrites, edits and refused calls.
CountersMatchVoters ==
    \A k \in DOMAIN store :
        store[k].approve + store[k].reject + store[k].pass = Len(store[k].voted)

\* a caller who is not the owner had end_proposal refused on a proposal both
\* callers had voted on
CountersMatchVotersWitness ==
    /\ last.op = "end_proposal"
    /\ last.ret = "AccessRejected"
    /\ Len(store[last.key].voted) = 2
    /\ store[last.key].approve + store[last.key].reject + store[last.key].pass = 2

\* C19. Key isolation: a call of create_proposal, edit_proposal, end_proposal
\* or vote on key k, whatever it returns, leaves every other key as it was:
\* stored or not, and with the same record.
KeyIsolation ==
    [][\A k \in Keys :
          (IsCall("create_proposal", k) \/ IsCall("edit_proposal", k)
           \/ IsCall("end_proposal", k) \/ IsCall("vote", k))
          => \A other \in Keys \ {k} :
                 /\ (other \in DOMAIN store') = (other \in DOMAIN store)
                 /\ other \in DOMAIN store => store'[other] = store[other]]_vars

\* a create_proposal replaced the record at one key while the other key held
\* a record with a counted vote
KeyIsolationWitness ==
    /\ last.op = "create_proposal"
    /\ ~last.trap
    /\ last.ret # None
    /\ \E other \in DOMAIN store \ {last.key} : store[other].voted # <<>>

====
